---- MODULE Spec2Model ----
(***************************************************************************)
(* The two HTTP routes of convex/http.ts:                                  *)
(*   POST /clerk-webhook         verify a Clerk (svix) webhook, then sync  *)
(*                               the user through syncUser / updateUser    *)
(*   POST /vapi/generate-program forward the body to the Python backend    *)
(*                               and persist the plan through createPlan   *)
(* A handler runs until its next await on the network or on a mutation;    *)
(* requests in flight are kept in a bag, one record per suspended handler. *)
(* The response most recently produced is kept in lastResponse, together   *)
(* with what the handler read of the request and which calls it made.      *)
(***************************************************************************)
EXTENDS Integers, Sequences, FiniteSets, Bags, TLC

VARIABLES
    users,           \* the users table, a sequence of user documents
    plans,           \* the plans table, a sequence of plan documents
    inflight,        \* bag of handlers suspended at an await
    received,        \* number of requests accepted so far
    lastResponse     \* the response produced by the latest finished handler

vars == <<users, plans, inflight, received, lastResponse>>

(***************************************************************************)
(* Bounds of the model.                                                    *)
(***************************************************************************)
MaxRequests == 3     \* requests accepted in one behaviour
MaxInFlight == 2     \* handlers suspended at the same time

(***************************************************************************)
(* JavaScript values.  Every value is a record tagged with its type, so    *)
(* that values of different types can be compared.                         *)
(***************************************************************************)
Undefined == [t |-> "undefined"]
JNull == [t |-> "null"]
JTrue == [t |-> "bool", v |-> "true"]
JFalse == [t |-> "bool", v |-> "false"]
JNum(n) == [t |-> "num", v |-> n]
JStr(s) == [t |-> "str", v |-> s]
JObj(fields) == [t |-> "obj", f |-> fields]
\* A string kept as the sequence of its characters, where the code edits it.
JText(chars) == [t |-> "str", chars |-> chars]

\* ToBoolean: the falsy values are undefined, null, false, 0 and "".
Truthy(v) ==
    ~ \/ v.t \in {"undefined", "null"}
      \/ v = JFalse
      \/ v = JNum("0")
      \/ v = JStr("")
      \/ v = JText(<< >>)

\* Reading a property of null or undefined throws a TypeError.
CanRead(v) == v.t \notin {"undefined", "null"}

\* v.k for a value v whose properties can be read: an own field of an
\* object, undefined for a missing field or a primitive.
Get(v, k) ==
    IF v.t = "obj" /\ k \in DOMAIN v.f THEN v.f[k] ELSE Undefined

\* { ...result, planId }: the own fields of result, then planId.
SpreadWithPlanId(result, planId) ==
    LET own == IF result.t = "obj" THEN DOMAIN result.f ELSE {}
    IN  JObj([k \in own \cup {"planId"} |->
                IF k = "planId" THEN planId ELSE result.f[k]])

(***************************************************************************)
(* Texts on the wire.  A text either parses as JSON to a value or does     *)
(* not; JSON.parse throws a SyntaxError on the latter.                     *)
(***************************************************************************)
NotJson == [kind |-> "notjson"]
JsonText(v) == [kind |-> "json", value |-> v]
Parses(text) == text.kind = "json"
JSONParse(text) == text.value

NoResponse == [route |-> "none"]

\* The handlers of one route suspended at an await.
Suspended(route) == {r \in BagToSet(inflight) : r.route = route}

\* A new request is accepted while the bounds allow it.
CanAccept == received < MaxRequests /\ BagCardinality(inflight) < MaxInFlight

(***************************************************************************)
(* POST /vapi/generate-program                                             *)
(***************************************************************************)
\* Request bodies: a text that is not JSON, null, and objects with user_id
\* and an optional name.
VapiPayloads ==
    {JNull,
     JObj([user_id |-> JStr("u1")]),
     JObj([user_id |-> JStr("u1"), name |-> JStr("")]),
     JObj([user_id |-> JStr("u1"), name |-> JStr("Plan A")])}

VapiBodies == {NotJson} \cup {JsonText(p) : p \in VapiPayloads}

\* What the Python backend can answer with.
PlanData(flag) ==
    JObj([success |-> flag, diet_plan |-> JStr("D"), workout_plan |-> JStr("W")])

UpstreamValues ==
    {JNull,
     JNum("5"),
     JObj([detail |-> JStr("bad request")]),
     JObj([success |-> JFalse]),
     JObj([success |-> JTrue]),
     JObj([success |-> JTrue, data |-> JNull]),
     JObj([success |-> JTrue, data |-> JObj([success |-> JFalse])]),
     JObj([success |-> JFalse, data |-> PlanData(JTrue)]),
     JObj([success |-> JTrue, data |-> PlanData(JTrue)]),
     JObj([success |-> JNum("1"), data |-> PlanData(JNum("1"))])}

UpstreamTexts == {NotJson} \cup {JsonText(v) : v \in UpstreamValues}
UpstreamStatuses == {200, 404}

\* fetch either rejects (connection refused, timeout, body cut short) or
\* yields a status and the whole body as text.
NoUpstream == [kind |-> "none"]
TransportFailure == [kind |-> "transport"]
UpstreamOutcomes ==
    {TransportFailure}
    \cup {[kind |-> "response", status |-> s, text |-> x] :
             s \in UpstreamStatuses, x \in UpstreamTexts}

\* Response.ok: the status is in the range 200-299.
ResponseOk(status) == status >= 200 /\ status <= 299

\* Error messages, kept as their template and the values interpolated.
JMessage(message) == [t |-> "str", message |-> message]
RequestSyntaxError == [template |-> "SyntaxError: request body is not JSON"]
FetchFailed == [template |-> "fetch failed"]
TypeErrorMessage == [template |-> "TypeError: cannot read properties"]
CreatePlanFailed == [template |-> "createPlan failed"]
\* The message without the upstream status.
PythonApiErrorWithoutStatus(status, responseText) ==
    [template |-> "Python API error: ${responseText}",
     responseText |-> responseText]
PythonApiError(status, responseText) ==
    [template |-> "Python API error: ${response.status} - ${responseText}",
     status |-> status, responseText |-> responseText]
ParseError(responseText) ==
    [template |-> "Failed to parse Python backend JSON: ${parseErr} | Raw: ${responseText}",
     responseText |-> responseText]

\* The catch block without its status: a Response is 200 by default.
VapiCatchDefaultStatus(message) ==
    [next |-> "respond", status |-> 200,
     body |-> JObj([success |-> JFalse, error |-> JMessage(message)])]

\* The catch block: every exception becomes 500 {success: false, error}.
VapiCatch(message) ==
    [next |-> "respond", status |-> 500,
     body |-> JObj([success |-> JFalse, error |-> JMessage(message)])]

\* The test without its last operand: result.success && result.data.
PlanConditionOuterOnly(result) ==
    /\ Truthy(Get(result, "success"))
    /\ Truthy(Get(result, "data"))

\* result.success && result.data && result.data.success, for a result
\* whose properties can be read.
PlanCondition(result) ==
    /\ Truthy(Get(result, "success"))
    /\ Truthy(Get(result, "data"))
    /\ Truthy(Get(Get(result, "data"), "success"))

\* The document with the two plans swapped and the name taken as it is.
PlanToSaveSwapped(payload, result) ==
    [userId |-> Get(payload, "user_id"),
     dietPlan |-> Get(Get(result, "data"), "workout_plan"),
     isActive |-> JTrue,
     workoutPlan |-> Get(Get(result, "data"), "diet_plan"),
     name |-> IF Truthy(Get(payload, "name"))
              THEN Get(payload, "name") ELSE JStr("Fitness Plan")]

\* The document handed to createPlan.
PlanToSave(payload, result) ==
    [userId |-> Get(payload, "user_id"),
     dietPlan |-> Get(Get(result, "data"), "diet_plan"),
     isActive |-> JTrue,
     workoutPlan |-> Get(Get(result, "data"), "workout_plan"),
     name |-> IF Truthy(Get(payload, "name"))
              THEN Get(payload, "name") ELSE JStr("Fitness Plan")]

\* The handler from the moment fetch settles up to its next await or its
\* response.
VapiAfterFetch(payload, up) ==
    IF up.kind = "transport" THEN VapiCatch(FetchFailed)
    ELSE IF ~ResponseOk(up.status)
    THEN VapiCatch(PythonApiError(up.status, up.text))
    ELSE IF ~Parses(up.text) THEN VapiCatch(ParseError(up.text))
    ELSE LET result == JSONParse(up.text) IN
         IF ~CanRead(result) THEN VapiCatch(TypeErrorMessage)
         ELSE IF PlanCondition(result)
         THEN IF ~CanRead(payload) THEN VapiCatch(TypeErrorMessage)
              ELSE [next |-> "createPlan", plan |-> PlanToSave(payload, result)]
         ELSE [next |-> "respond", status |-> 500, body |-> result]

\* The handler after createPlan returned planId.
VapiPlanSaved(result, planId) ==
    [next |-> "respond", status |-> 200, body |-> SpreadWithPlanId(result, planId)]

\* api.plans.createPlan: insert the document, return its generated id.
NewPlanId(store) == [t |-> "id", table |-> "plans", n |-> Len(store) + 1]
CreatePlan(store, plan) == Append(store, plan)

VapiResponse(body, up, out, fetchCalls, createPlanCalls, planId) ==
    [route |-> "vapi", body |-> body, up |-> up,
     status |-> out.status, out |-> out.body,
     fetchCalls |-> fetchCalls, createPlanCalls |-> createPlanCalls,
     planId |-> planId]

\* A request arrives: request.json(), then the fetch is issued.
VapiReceive(body) ==
    /\ CanAccept
    /\ received' = received + 1
    /\ IF ~Parses(body)
       THEN /\ lastResponse' = VapiResponse(body, NoUpstream,
                                   VapiCatch(RequestSyntaxError), 0, 0, Undefined)
            /\ UNCHANGED inflight
       ELSE /\ inflight' = inflight (+) SetToBag({
                   [route |-> "vapi", pc |-> "fetch", payload |-> JSONParse(body),
                    up |-> NoUpstream, plan |-> Undefined,
                    fetchCalls |-> 1, createPlanCalls |-> 0]})
            /\ UNCHANGED lastResponse
    /\ UNCHANGED <<users, plans>>

\* The fetch of a suspended handler settles with outcome up.
VapiFetchSettles(r, up) ==
    /\ r.pc = "fetch"
    /\ LET o == VapiAfterFetch(r.payload, up) IN
       IF o.next = "createPlan"
       THEN /\ inflight' = (inflight (-) SetToBag({r})) (+) SetToBag({
                   [r EXCEPT !.pc = "createPlan", !.up = up, !.plan = o.plan,
                             !.createPlanCalls = @ + 1]})
            /\ UNCHANGED lastResponse
       ELSE /\ inflight' = inflight (-) SetToBag({r})
            /\ lastResponse' = VapiResponse(JsonText(r.payload), up, o,
                                   r.fetchCalls, r.createPlanCalls, Undefined)
    /\ UNCHANGED <<users, plans, received>>

\* The createPlan mutation of a suspended handler commits or fails.
VapiCreatePlanSettles(r, ok) ==
    /\ r.pc = "createPlan"
    /\ inflight' = inflight (-) SetToBag({r})
    /\ IF ok
       THEN /\ plans' = CreatePlan(plans, r.plan)
            /\ lastResponse' = VapiResponse(JsonText(r.payload), r.up,
                   VapiPlanSaved(JSONParse(r.up.text), NewPlanId(plans)),
                   r.fetchCalls, r.createPlanCalls, NewPlanId(plans))
       ELSE /\ UNCHANGED plans
            /\ lastResponse' = VapiResponse(JsonText(r.payload), r.up,
                   VapiCatch(CreatePlanFailed),
                   r.fetchCalls, r.createPlanCalls, Undefined)
    /\ UNCHANGED <<users, received>>

(***************************************************************************)
(* POST /clerk-webhook                                                     *)
(***************************************************************************)
\* process.env.CLERK_WEBHOOK_SECRET: unset, or the signing secret.
WebhookSecrets == {"unset", "whsec_1"}
SvixHeaders == {"svix-id", "svix-signature", "svix-timestamp"}
ClerkIds == {"user_1", "user_2"}
FirstNames == {JNull, JText(<<"A">>)}
LastNames == {JText(<<"B">>)}
EmailLists == {<< >>, <<[email_address |-> "a@x.io"]>>}
EventTypes == {"user.created", "user.updated", "user.deleted"}

ClerkEvents ==
    [type : EventTypes, id : ClerkIds, first_name : FirstNames,
     last_name : LastNames, image_url : {"img"}, email_addresses : EmailLists]

\* The raw body: not JSON, or JSON that is or is not written the way
\* JSON.stringify writes it (key order, white space, escapes).
ClerkBodies ==
    {NotJson}
    \cup {[kind |-> "json", value |-> e, canonical |-> c] :
            e \in ClerkEvents, c \in BOOLEAN}

Unread == [kind |-> "unread"]

\* A request: the svix headers present, the raw body, and whether the
\* signature header is the sender's signature of the raw body.  The
\* handler returns before request.json() when a header is missing, so the
\* requests with a missing header are told apart by their headers only.
ClerkRequests ==
    [headers : (SUBSET SvixHeaders) \ {SvixHeaders}, body : {Unread},
     signature : {"unread"}]
    \cup [headers : {SvixHeaders}, body : ClerkBodies,
          signature : {"valid", "forged"}]

\* The header test with && for ||: only a request without any svix header
\* is turned away.
MissingEverySvixHeader(headers) ==
    /\ "svix-id" \notin headers
    /\ "svix-signature" \notin headers
    /\ "svix-timestamp" \notin headers

\* !svix_id || !svix_signature || !svix_timestamp
MissingSvixHeader(headers) ==
    \/ "svix-id" \notin headers
    \/ "svix-signature" \notin headers
    \/ "svix-timestamp" \notin headers

\* wh.verify(JSON.stringify(payload), headers): the signature (with its id
\* and timestamp) is checked against the re-serialised payload, which is
\* the signed text only when the raw body was already in JSON.stringify's
\* form.
VerifyOk(body, signature) == signature = "valid" /\ body.canonical

\* String.prototype.trim on a sequence of characters.
RECURSIVE TrimStart(_)
TrimStart(s) ==
    IF s # << >> /\ Head(s) = " " THEN TrimStart(Tail(s)) ELSE s
RECURSIVE TrimEnd(_)
TrimEnd(s) ==
    IF s # << >> /\ s[Len(s)] = " " THEN TrimEnd(SubSeq(s, 1, Len(s) - 1)) ELSE s
Trim(s) == TrimEnd(TrimStart(s))

\* x || ""
OrEmpty(x) == IF Truthy(x) THEN x.chars ELSE << >>

\* `${first_name || ""} ${last_name || ""}`.trim()
FullName(first_name, last_name) ==
    Trim(OrEmpty(first_name) \o <<" ">> \o OrEmpty(last_name))

\* The arguments with the e-mail address passed as clerkId.
SyncArgsKeyedByEmail(evt) ==
    [clerkId |-> evt.email_addresses[1].email_address,
     email |-> evt.email_addresses[1].email_address,
     name |-> FullName(evt.first_name, evt.last_name),
     image |-> evt.image_url]

\* The arguments of syncUser and of updateUser.
SyncArgs(evt) ==
    [clerkId |-> evt.id,
     email |-> evt.email_addresses[1].email_address,
     name |-> FullName(evt.first_name, evt.last_name),
     image |-> evt.image_url]

\* What the handler has settled when it returns, throws or suspends:
\* next is "respond", "threw", "syncUser" or "updateUser".
ClerkOutcome(next, status, text, body, signature) ==
    [next |-> next, status |-> status, text |-> text,
     body |-> body, signature |-> signature]

MissingHeadersResponse ==
    ClerkOutcome("respond", 400, "No svix headers found", Unread, "unread")
ProcessedResponse(body, signature) ==
    ClerkOutcome("respond", 200, "Webhooks processed successfully", body, signature)
\* The catch of syncUser without its return: the error is logged and the
\* handler goes on to its 200.
SyncFailureSwallowed(body, signature) == ProcessedResponse(body, signature)
SyncFailedResponse(body, signature) ==
    ClerkOutcome("respond", 500, "Error creating user", body, signature)
UpdateFailedResponse(body, signature) ==
    ClerkOutcome("respond", 500, "Error updating user", body, signature)
\* An exception nothing catches: the handler produces no Response.
Threw(text, body, signature) == ClerkOutcome("threw", 0, text, body, signature)

\* The branch of a verified event: eventType === "user.created" first.
ClerkDispatch(evt, body, signature) ==
    IF evt.type = "user.created"
    THEN IF evt.email_addresses = << >>
         THEN Threw("TypeError: email_addresses[0] is undefined", body, signature)
         ELSE ClerkOutcome("syncUser", 0, "", body, signature)
    ELSE IF evt.type = "user.updated"
    THEN IF evt.email_addresses = << >>
         THEN Threw("TypeError: email_addresses[0] is undefined", body, signature)
         ELSE ClerkOutcome("updateUser", 0, "", body, signature)
    ELSE ProcessedResponse(body, signature)

\* The catch of wh.verify without its return: the handler goes on to
\* dispatch the unverified payload.
VerifyFailureFallsThrough(req) ==
    ClerkDispatch(JSONParse(req.body), req.body, req.signature)

\* The catch of wh.verify.
VerifyFailedResponse(req) ==
    ClerkOutcome("respond", 400, "Error occurred", req.body, req.signature)

\* The handler from its start to its first mutation or its response.
ClerkHandler(secret, req) ==
    IF secret = "unset"
    THEN Threw("Missing CLERK_WEBHOOK_SECRET environment variable", Unread, "unread")
    ELSE IF MissingSvixHeader(req.headers) THEN MissingHeadersResponse
    ELSE IF ~Parses(req.body)
    THEN Threw("SyntaxError: request body is not JSON", req.body, "unread")
    ELSE IF ~VerifyOk(req.body, req.signature) THEN VerifyFailedResponse(req)
    ELSE ClerkDispatch(JSONParse(req.body), req.body, req.signature)

\* The second branch test, reached when syncUser has returned.
ClerkAfterSyncUser(evt, body, signature) ==
    IF evt.type = "user.updated"
    THEN ClerkOutcome("updateUser", 0, "", body, signature)
    ELSE ProcessedResponse(body, signature)

\* api.users.syncUser: create the user document unless one with this
\* clerkId exists.
HasUser(store, clerkId) == \E i \in DOMAIN store : store[i].clerkId = clerkId
SyncUser(store, args) ==
    IF HasUser(store, args.clerkId) THEN store ELSE Append(store, args)

\* api.users.updateUser: overwrite email, name and image of the document
\* with this clerkId.  Without such a document the mutation creates it or
\* fails: it creates it here, and its failure is the failed outcome of
\* ClerkUpdateUserSettles.
UpdateUser(store, args) ==
    IF HasUser(store, args.clerkId)
    THEN [i \in DOMAIN store |->
            IF store[i].clerkId = args.clerkId THEN args ELSE store[i]]
    ELSE Append(store, args)

ClerkResponse(secret, headers, o, syncUserCalls, updateUserCalls, mutation) ==
    [route |-> "clerk", secret |-> secret, headers |-> headers, body |-> o.body,
     signature |-> o.signature, threw |-> (o.next = "threw"),
     status |-> o.status, text |-> o.text,
     syncUserCalls |-> syncUserCalls, updateUserCalls |-> updateUserCalls,
     mutation |-> mutation]

ClerkSuspended(secret, headers, o, syncUserCalls, updateUserCalls) ==
    [route |-> "clerk", pc |-> o.next, secret |-> secret, headers |-> headers,
     body |-> o.body,
     signature |-> o.signature, args |-> SyncArgs(JSONParse(o.body)),
     syncUserCalls |-> syncUserCalls, updateUserCalls |-> updateUserCalls]

\* A webhook arrives and the handler runs to its mutation or its response;
\* secret is what process.env.CLERK_WEBHOOK_SECRET holds at that moment.
ClerkReceive(secret, req) ==
    /\ CanAccept
    /\ received' = received + 1
    /\ LET o == ClerkHandler(secret, req) IN
       IF o.next = "syncUser"
       THEN /\ inflight' = inflight (+) SetToBag({ClerkSuspended(secret, req.headers, o, 1, 0)})
            /\ UNCHANGED lastResponse
       ELSE IF o.next = "updateUser"
       THEN /\ inflight' = inflight (+) SetToBag({ClerkSuspended(secret, req.headers, o, 0, 1)})
            /\ UNCHANGED lastResponse
       ELSE /\ lastResponse' = ClerkResponse(secret, req.headers, o, 0, 0, "none")
            /\ UNCHANGED inflight
    /\ UNCHANGED <<users, plans>>

\* The syncUser mutation of a suspended handler commits or fails.
ClerkSyncUserSettles(r, ok) ==
    /\ r.pc = "syncUser"
    /\ IF ok
       THEN LET o == ClerkAfterSyncUser(JSONParse(r.body), r.body, r.signature) IN
            /\ users' = SyncUser(users, r.args)
            /\ IF o.next = "updateUser"
               THEN /\ inflight' = (inflight (-) SetToBag({r})) (+) SetToBag({
                           [r EXCEPT !.pc = "updateUser", !.updateUserCalls = @ + 1]})
                    /\ UNCHANGED lastResponse
               ELSE /\ inflight' = inflight (-) SetToBag({r})
                    /\ lastResponse' = ClerkResponse(r.secret, r.headers, o,
                           r.syncUserCalls, r.updateUserCalls,
                           IF HasUser(users, r.args.clerkId)
                           THEN "existing" ELSE "inserted")
       ELSE /\ UNCHANGED users
            /\ inflight' = inflight (-) SetToBag({r})
            /\ lastResponse' = ClerkResponse(r.secret, r.headers,
                   SyncFailedResponse(r.body, r.signature),
                   r.syncUserCalls, r.updateUserCalls, "failed")
    /\ UNCHANGED <<plans, received>>

\* The updateUser mutation of a suspended handler commits or fails.
ClerkUpdateUserSettles(r, ok) ==
    /\ r.pc = "updateUser"
    /\ inflight' = inflight (-) SetToBag({r})
    /\ IF ok
       THEN /\ users' = UpdateUser(users, r.args)
            /\ lastResponse' = ClerkResponse(r.secret, r.headers,
                   ProcessedResponse(r.body, r.signature),
                   r.syncUserCalls, r.updateUserCalls,
                   IF HasUser(users, r.args.clerkId)
                   THEN "patched" ELSE "inserted")
       ELSE /\ UNCHANGED users
            /\ lastResponse' = ClerkResponse(r.secret, r.headers,
                   UpdateFailedResponse(r.body, r.signature),
                   r.syncUserCalls, r.updateUserCalls, "failed")
    /\ UNCHANGED <<plans, received>>

Init ==
    /\ users = << >>
    /\ plans = << >>
    /\ inflight = EmptyBag
    /\ received = 0
    /\ lastResponse = NoResponse

NextVapi ==
    \/ \E body \in VapiBodies : VapiReceive(body)
    \/ \E r \in Suspended("vapi") : \E up \in UpstreamOutcomes : VapiFetchSettles(r, up)
    \/ \E r \in Suspended("vapi") : \E ok \in BOOLEAN : VapiCreatePlanSettles(r, ok)

SpecVapi == Init /\ [][NextVapi]_vars

NextClerk ==
    \/ \E secret \in WebhookSecrets : \E req \in ClerkRequests :
          ClerkReceive(secret, req)
    \/ \E r \in Suspended("clerk") : \E ok \in BOOLEAN : ClerkSyncUserSettles(r, ok)
    \/ \E r \in Suspended("clerk") : \E ok \in BOOLEAN : ClerkUpdateUserSettles(r, ok)

SpecClerk == Init /\ [][NextClerk]_vars

Next == NextClerk \/ NextVapi

Spec == Init /\ [][Next]_vars

(***************************************************************************)
(* Properties of /clerk-webhook, checked under SpecClerk.                  *)
(***************************************************************************)
Clerk == lastResponse.route = "clerk"
NoSyncCalls == lastResponse.syncUserCalls = 0 /\ lastResponse.updateUserCalls = 0

\* The handler got as far as wh.verify: all headers there, the body parsed.
VerifyRan == Clerk /\ lastResponse.signature # "unread"
Verified ==
    VerifyRan /\ lastResponse.signature = "valid" /\ lastResponse.body.canonical

\* C1 as stated: a request with one of the three svix headers missing is
\* answered 400 and calls neither syncUser nor updateUser, whatever the
\* environment, the webhook secret being unset included.
C1_MissingHeaderAlways400 ==
    (Clerk /\ lastResponse.headers # SvixHeaders)
        => /\ ~lastResponse.threw
           /\ lastResponse.status = 400
           /\ NoSyncCalls

\* C1 amended: with the webhook secret set, a request with one of the three
\* svix headers missing is answered 400; with the secret unset the handler
\* throws before it looks at the headers and answers nothing.  In both
\* cases neither mutation is called, and no handler of such a request is
\* ever suspended at a mutation.
C1_MissingHeader400WhenSecretSet ==
    /\ (Clerk /\ lastResponse.headers # SvixHeaders)
          => /\ NoSyncCalls
             /\ lastResponse.mutation = "none"
             /\ IF lastResponse.secret = "unset"
                THEN lastResponse.threw
                ELSE ~lastResponse.threw /\ lastResponse.status = 400
    /\ \A r \in Suspended("clerk") : r.headers = SvixHeaders /\ r.secret # "unset"

C1_Witness ==
    /\ Clerk
    /\ lastResponse.secret # "unset"
    /\ lastResponse.headers = {"svix-id", "svix-timestamp"}
    /\ lastResponse.status = 400

SameClerkId(store, id) == {i \in DOMAIN store : store[i].clerkId = id}
C5_RedeliveryIdempotent ==
    [][/\ \A i, j \in DOMAIN users' :
            users'[i].clerkId = users'[j].clerkId => i = j
       /\ \A r \in Suspended("clerk") :
            ( /\ r.pc = "syncUser"
              /\ inflight' = inflight (-) SetToBag({r})
              /\ lastResponse'.mutation \in {"inserted", "existing"} )
            => /\ Cardinality(SameClerkId(users', r.body.value.id)) = 1
               /\ SameClerkId(users, r.body.value.id) # {} => users' = users
      ]_vars

C5_Witness ==
    /\ Clerk
    /\ lastResponse.mutation = "existing"
    /\ lastResponse.status = 200
    /\ lastResponse.body.value.type = "user.created"
    /\ Cardinality(SameClerkId(users, lastResponse.body.value.id)) = 1
    /\ \E i \in DOMAIN users :
          /\ users[i].clerkId = lastResponse.body.value.id
          /\ users[i].name = FullName(lastResponse.body.value.first_name,
                                      lastResponse.body.value.last_name)

\* C7: for a verified event, user.created calls syncUser exactly once and
\* never updateUser, user.updated calls updateUser exactly once and never
\* syncUser, and any other type calls neither and is answered 200.
C7_DispatchConfinedToBranch ==
    Verified =>
        IF lastResponse.body.value.type = "user.created"
        THEN lastResponse.syncUserCalls = 1 /\ lastResponse.updateUserCalls = 0
        ELSE IF lastResponse.body.value.type = "user.updated"
        THEN lastResponse.syncUserCalls = 0 /\ lastResponse.updateUserCalls = 1
        ELSE /\ NoSyncCalls
             /\ lastResponse.mutation = "none"
             /\ ~lastResponse.threw
             /\ lastResponse.status = 200

\* C8: when the mutation of a verified user.created or user.updated event
\* fails, the answer is 500 with the branch's fixed text, and the mutation
\* was called once and the other one never.
C8_SyncFailure500NoRetry ==
    (Clerk /\ lastResponse.mutation = "failed")
        => /\ Verified
           /\ ~lastResponse.threw
           /\ lastResponse.status = 500
           /\ IF lastResponse.body.value.type = "user.created"
              THEN /\ lastResponse.text = "Error creating user"
                   /\ lastResponse.syncUserCalls = 1
                   /\ lastResponse.updateUserCalls = 0
              ELSE /\ lastResponse.body.value.type = "user.updated"
                   /\ lastResponse.text = "Error updating user"
                   /\ lastResponse.syncUserCalls = 0
                   /\ lastResponse.updateUserCalls = 1

C8_Witness ==
    /\ Clerk
    /\ lastResponse.mutation = "failed"
    /\ lastResponse.body.value.type = "user.updated"
    /\ lastResponse.status = 500

(***************************************************************************)
(* Properties of /vapi/generate-program, checked under SpecVapi.           *)
(***************************************************************************)
Vapi == lastResponse.route = "vapi"
Is2xx(up) == up.kind = "response" /\ up.status \in 200..299

\* The upstream answer was 2xx and parsed as JSON.
UpstreamParsed == Vapi /\ Is2xx(lastResponse.up) /\ lastResponse.up.text.kind = "json"

\* result.success and result.data.success both hold, by the test the
\* handler applies (JavaScript truthiness).
DoubleSuccess(value) ==
    Truthy(Get(value, "success")) /\ Truthy(Get(Get(value, "data"), "success"))

FullSuccess == JObj([success |-> JTrue, data |-> PlanData(JTrue)])
ErrorBody(out) ==
    /\ out.t = "obj"
    /\ DOMAIN out.f = {"success", "error"}
    /\ out.f.success = JFalse

\* C3: the plans table only ever grows by the document of a request whose
\* upstream answer was 2xx, parsed as JSON and had result.success and
\* result.data.success both set; a request answered {"success": false} by
\* the upstream gets 500 and leaves the table as it was.
C3_PlanOnlyOnDoubleSuccess ==
    [][/\ plans' # plans
            => \E r \in Suspended("vapi") :
                  /\ r.pc = "createPlan"
                  /\ inflight' = inflight (-) SetToBag({r})
                  /\ Is2xx(r.up)
                  /\ r.up.text.kind = "json"
                  /\ DoubleSuccess(r.up.text.value)
                  /\ plans' = Append(plans, r.plan)
       /\ \A r \in Suspended("vapi") : \A s \in UpstreamStatuses :
            ( /\ r.pc = "fetch"
              /\ inflight' = inflight (-) SetToBag({r})
              /\ s \in 200..299
              /\ lastResponse'.up = [kind |-> "response", status |-> s,
                                     text |-> JsonText(JObj([success |-> JFalse]))] )
            => /\ lastResponse'.status = 500
               /\ plans' = plans
      ]_vars

C3_Witness ==
    /\ Vapi
    /\ lastResponse.status = 200
    /\ Len(plans) = 2
    /\ BagCardinality(inflight) = 1

\* The PlanRecord C4 describes for a request payload and the backend's
\* plans D and W; the name is the request's when it has one.
ClaimedPlan(payload) ==
    [userId |-> Get(payload, "user_id"),
     dietPlan |-> JStr("D"),
     isActive |-> JTrue,
     workoutPlan |-> JStr("W"),
     name |-> IF payload.t = "obj" /\ "name" \in DOMAIN payload.f
              THEN payload.f.name ELSE JStr("Fitness Plan")]

\* The upstream answered 2xx {success: true, data: {success: true,
\* diet_plan: D, workout_plan: W}}.
AnsweredFullSuccess ==
    /\ UpstreamParsed
    /\ lastResponse.up.text.value = FullSuccess

Persisted200(plan) ==
    /\ lastResponse.status = 200
    /\ lastResponse.createPlanCalls = 1
    /\ lastResponse.planId.t = "id"
    /\ lastResponse.planId.n \in DOMAIN plans
    /\ plans[lastResponse.planId.n] = plan
    /\ lastResponse.out = JObj([success |-> JTrue, data |-> PlanData(JTrue),
                                planId |-> lastResponse.planId])

\* C4 as stated: every request answered by the upstream with the full
\* success body ends with one PlanRecord persisted (userId, dietPlan D,
\* workoutPlan W, isActive true, name the request's or "Fitness Plan" when
\* the request has none) and with 200 carrying the result and its planId.
C4_FullSuccessAlwaysPersists ==
    (AnsweredFullSuccess /\ lastResponse.body.value.t = "obj")
        => Persisted200(ClaimedPlan(lastResponse.body.value))

\* C4 amended: for a request whose body is a JSON object and whose upstream
\* answer is the full success body, createPlan is called exactly once with
\* userId, dietPlan D, workoutPlan W, isActive true and the request's name,
\* or "Fitness Plan" when the name is absent or empty; if createPlan
\* succeeds that record is persisted under the returned id and the answer
\* is 200 with the result plus planId, and if it fails the answer is 500
\* {success: false, error} and no id is returned.
C4_FullSuccessPersistsWhenCreatePlanSucceeds ==
    (AnsweredFullSuccess /\ lastResponse.body.value.t = "obj")
        => LET payload == lastResponse.body.value
               name == IF "name" \in DOMAIN payload.f /\ payload.f.name # JStr("")
                       THEN payload.f.name ELSE JStr("Fitness Plan")
           IN  /\ lastResponse.createPlanCalls = 1
               /\ IF lastResponse.planId # Undefined
                  THEN Persisted200([ClaimedPlan(payload) EXCEPT !.name = name])
                  ELSE lastResponse.status = 500 /\ ErrorBody(lastResponse.out)

C4_Witness ==
    /\ AnsweredFullSuccess
    /\ lastResponse.status = 200
    /\ lastResponse.body.value = JObj([user_id |-> JStr("u1"), name |-> JStr("Plan A")])
    /\ plans[lastResponse.planId.n].name = JStr("Plan A")

\* C6: a request whose upstream call returns a status outside 200-299 is
\* answered 500 {success: false, error} where the error message carries
\* the upstream status and the raw upstream body, and createPlan is not
\* called for it.
C6_Non2xxIs500WithStatusAndBody ==
    /\ (Vapi /\ lastResponse.up.kind = "response" /\ ~Is2xx(lastResponse.up))
          => /\ lastResponse.status = 500
             /\ ErrorBody(lastResponse.out)
             /\ DOMAIN lastResponse.out.f.error.message
                    = {"template", "status", "responseText"}
             /\ lastResponse.out.f.error.message.status = lastResponse.up.status
             /\ lastResponse.out.f.error.message.responseText = lastResponse.up.text
             /\ lastResponse.createPlanCalls = 0
             /\ lastResponse.planId = Undefined
    /\ \A r \in Suspended("vapi") : r.pc = "createPlan" => Is2xx(r.up)

C6_Witness ==
    /\ Vapi
    /\ lastResponse.up = [kind |-> "response", status |-> 404,
                          text |-> JsonText(FullSuccess)]
    /\ lastResponse.status = 500

\* C9: a 2xx upstream answer that parses as JSON to any value not meeting
\* the double-success condition (null included) is answered 500 with that
\* value as the body.
C9_NonSuccessResultVerbatim ==
    (UpstreamParsed /\ ~DoubleSuccess(lastResponse.up.text.value))
        => /\ lastResponse.status = 500
           /\ lastResponse.out = lastResponse.up.text.value

\* C10: every request makes at most one outbound call and at most one
\* createPlan call, is answered 200 or 500, and is answered 200 exactly
\* when its createPlan call succeeded; a createPlan failure is answered
\* 500 {success: false, error} without a planId.
C10_SingleAttemptAnd200IffPersisted ==
    /\ \A r \in Suspended("vapi") :
          /\ r.fetchCalls = 1
          /\ r.createPlanCalls = IF r.pc = "createPlan" THEN 1 ELSE 0
    /\ Vapi
          => /\ lastResponse.fetchCalls <= 1
             /\ lastResponse.createPlanCalls <= 1
             /\ lastResponse.status \in {200, 500}
             /\ lastResponse.status = 200
                   <=> (lastResponse.createPlanCalls = 1
                        /\ lastResponse.planId # Undefined)
             /\ lastResponse.planId # Undefined
                   => lastResponse.planId.n \in DOMAIN plans
             /\ (lastResponse.createPlanCalls = 1 /\ lastResponse.planId = Undefined)
                   => /\ lastResponse.status = 500
                      /\ ErrorBody(lastResponse.out)

C10_Witness ==
    /\ Vapi
    /\ lastResponse.createPlanCalls = 1
    /\ lastResponse.planId = Undefined
    /\ lastResponse.status = 500

====
